---- MODULE Spec2Model ----
(***************************************************************************)
(* State-machine model of the dork generation / validation / refinement    *)
(* loop of the App component (src/unnamed/part_000) and of the credential  *)
(* injection of src/vite.config.ts.                                        *)
(*                                                                         *)
(* Conventions                                                             *)
(*   - a JavaScript string is a sequence of UTF-16 code units (naturals);  *)
(*   - a value that may be null / undefined is a sequence of length <= 1:  *)
(*     <<>> is null / undefined, <<v>> is the value v;                     *)
(*   - a user-visible message built by concatenation is the sequence of    *)
(*     the concatenated pieces.                                            *)
(***************************************************************************)
EXTENDS Integers, Sequences, FiniteSets, TLC

VARIABLES
  API_KEY,        \* process.env.API_KEY as injected at build time
  naturalInput,   \* the Objective
  dork,           \* the session query
  analysis,       \* the current DorkResponse, or null
  history,        \* the history ledger, newest first
  isLoading,      \* busy flag of the generation controller
  isOptimizing,   \* busy flag of the enhancement pass
  error,          \* user-visible error message, or null
  syntaxErrors,   \* the validation issues on display
  manualParams,   \* the manual override fields
  pending,        \* generateContent calls in flight
  calls,          \* number of generateContent calls made so far
  now,            \* the last value Date.now() returned; the clock has
                  \* advanced whenever a later completion reads it
  callBudget,     \* how many generateContent calls the run may make (bound)
  vPayload,       \* the string handed to validatePayload in the validator runs
  vIssues,        \* what validatePayload returned for it, or null before the call
  recorded,       \* every HistoryItem ever recorded, newest first (history variable)
  lastOp          \* the handler that ran last and what it did (history variable)

session == <<naturalInput, dork, analysis, history, isLoading, isOptimizing,
             error, syntaxErrors, manualParams>>

vars == <<API_KEY, naturalInput, dork, analysis, history, isLoading,
          isOptimizing, error, syntaxErrors, manualParams, pending, calls,
          now, callBudget, vPayload, vIssues, recorded, lastOp>>

----------------------------------------------------------------------------
(* Bounds of the model *)

\* generateContent calls a run of the session may make
MaxCalls == 2

\* generateContent calls a run of the ledger specification may make
MaxLedgerCalls == 11

\* calls the ledger specification lets overlap
MaxLedgerInFlight == 2

\* pieces a payload of the validator specification is built from
MaxPieces == 3

----------------------------------------------------------------------------
(* Values *)

NULL == <<>>

Some(v) == <<v>>

\* JavaScript truthiness of a string
Truthy(s) == Len(s) > 0

\* JavaScript truthiness of a string that may be null / undefined
TruthyOpt(o) == o # NULL /\ Len(o[1]) > 0

\* WhiteSpace and LineTerminator code units: what trim() strips and \s matches
WhiteSpace == {9, 10, 11, 12, 13, 32, 160, 5760, 8232, 8233, 8239, 8287, 12288, 65279}
              \cup (8192..8202)

MinOf(S) == CHOOSE x \in S : \A y \in S : x <= y

MaxOf(S) == CHOOSE x \in S : \A y \in S : x >= y

\* String.prototype.trim
Trim(s) ==
  LET keep == {i \in 1..Len(s) : s[i] \notin WhiteSpace}
  IN  IF keep = {} THEN <<>> ELSE SubSeq(s, MinOf(keep), MaxOf(keep))

\* Array.prototype.join(" ") over an array of strings
RECURSIVE JoinSpace(_)
JoinSpace(parts) ==
  IF Len(parts) = 0 THEN <<>>
  ELSE IF Len(parts) = 1 THEN parts[1]
  ELSE parts[1] \o <<32>> \o JoinSpace(Tail(parts))

\* Concatenation of an array of strings
RECURSIVE Flatten(_)
Flatten(parts) ==
  IF Len(parts) = 0 THEN <<>> ELSE parts[1] \o Flatten(Tail(parts))

\* payload contains word at position i
MatchAt(payload, word, i) ==
  /\ i + Len(word) - 1 <= Len(payload)
  /\ SubSeq(payload, i, i + Len(word) - 1) = word

----------------------------------------------------------------------------
(* Payload Validator *)

\* The character class [а-яА-ЯёЁ]: U+0430..U+044F, U+0410..U+042F, U+0451, U+0401
CyrillicClass == (1072..1103) \cup (1040..1071) \cup {1105, 1025}

\* /[а-яА-ЯёЁ]/.test(payload)
TestCyrillic(payload) == \E i \in 1..Len(payload) : payload[i] \in CyrillicClass

\* (payload.match(/"/g) || []).length
quoteCount(payload) == Cardinality({i \in 1..Len(payload) : payload[i] = 34})

\* The alternation (ext|site|inurl|intitle)
SpacingOperators ==
  { <<101, 120, 116>>,                       \* ext
    <<115, 105, 116, 101>>,                  \* site
    <<105, 110, 117, 114, 108>>,             \* inurl
    <<105, 110, 116, 105, 116, 108, 101>> }  \* intitle

\* /(ext|site|inurl|intitle):\s+/.test(payload)
TestBadSpacing(payload) ==
  \E w \in SpacingOperators : \E i \in 1..Len(payload) :
    /\ MatchAt(payload, w \o <<58>>, i)
    /\ i + Len(w) + 1 <= Len(payload)
    /\ payload[i + Len(w) + 1] \in WhiteSpace

IssueCyrillic ==
  "CRITICAL: Cyrillic characters detected in Dork. Google Operators must be ASCII."

IssueQuotes ==
  "SYNTAX ERROR: Unbalanced quotes detected. Ensure all strings are closed."

IssueSpacing ==
  "SYNTAX WARNING: Space detected after operator colon (e.g. 'ext: pdf'). Remove space."

CyrillicCheck(payload) ==
  IF TestCyrillic(payload) THEN <<IssueCyrillic>> ELSE <<>>

\* Faulty variant of QuoteCheck: any quote at all is reported
QuoteCheckAny(payload) ==
  IF quoteCount(payload) > 0 THEN <<IssueQuotes>> ELSE <<>>

QuoteCheck(payload) ==
  IF quoteCount(payload) % 2 # 0 THEN <<IssueQuotes>> ELSE <<>>

SpacingCheck(payload) ==
  IF TestBadSpacing(payload) THEN <<IssueSpacing>> ELSE <<>>

\* validatePayload applied to a string
validatePayload(payload) ==
  CyrillicCheck(payload) \o QuoteCheck(payload) \o SpacingCheck(payload)

----------------------------------------------------------------------------
(* Credential injection: vite.config.ts *)

\* Values an environment variable may have: unset, empty, set
EnvValues == {NULL, Some(<<>>), Some(<<107>>)}

\* const apiKey = process.env.API_KEY || env.API_KEY;
\* 'process.env.API_KEY': JSON.stringify(apiKey || '')
defineApiKey(systemEnv, dotEnv) ==
  LET apiKey == IF TruthyOpt(systemEnv) THEN systemEnv ELSE dotEnv
  IN  IF TruthyOpt(apiKey) THEN apiKey[1] ELSE <<>>

----------------------------------------------------------------------------
(* Session data *)

\* useState({site: "", inurl: "", intitle: "", filetype: "", textquery: ""})
EmptyManualParams ==
  [site |-> <<>>, inurl |-> <<>>, intitle |-> <<>>, filetype |-> <<>>,
   textquery |-> <<>>]

\* The parts array of the manual-params effect
ManualParts(mp) ==
  (IF Truthy(mp.site)
     THEN << <<115, 105, 116, 101, 58>> \o mp.site >> ELSE <<>>)
  \o (IF Truthy(mp.inurl)
     THEN << <<105, 110, 117, 114, 108, 58>> \o mp.inurl >> ELSE <<>>)
  \o (IF Truthy(mp.intitle)
     THEN << <<105, 110, 116, 105, 116, 108, 101, 58, 34>> \o mp.intitle \o <<34>> >>
     ELSE <<>>)
  \o (IF Truthy(mp.filetype)
     THEN << <<102, 105, 108, 101, 116, 121, 112, 101, 58>> \o mp.filetype >>
     ELSE <<>>)
  \o (IF Truthy(mp.textquery)
     THEN << <<34>> \o mp.textquery \o <<34>> >> ELSE <<>>)

\* Faulty variant of ManualEffect: the effect composes the manual fields
\* without looking at analysis
ManualEffectAlways(analysisNext, manualNext, dorkNext, depsChanged) ==
  IF depsChanged /\ Len(ManualParts(manualNext)) > 0
    THEN JoinSpace(ManualParts(manualNext))
    ELSE dorkNext

\* The manual-params effect, run after a render in which manualParams or
\* analysis changed (depsChanged): the value of dork after it, given the
\* values the render committed.
ManualEffect(analysisNext, manualNext, dorkNext, depsChanged) ==
  IF depsChanged /\ analysisNext = NULL /\ Len(ManualParts(manualNext)) > 0
    THEN JoinSpace(ManualParts(manualNext))
    ELSE dorkNext

\* A generateContent call in flight
GenerateCall(id, inputToUse) ==
  [id |-> id, kind |-> "generate", input |-> inputToUse]

OptimizeCall(id, input) ==
  [id |-> id, kind |-> "optimize", input |-> input]

\* The history variable lastOp
Op(op, outcome, id) == [op |-> op, outcome |-> outcome, id |-> id]

\* Faulty variant of UplinkError: the cause is dropped
UplinkErrorNoCause(err) == <<"UPLINK ERROR: Unable to generate strategy.">>

\* errorMsg of the catch block of generateWithAI; err is the message the
\* thrown value carries, or null when it carries none
UplinkError(err) ==
  <<"UPLINK ERROR: Unable to generate strategy.">>
  \o (IF TruthyOpt(err) THEN <<" [", err[1], "]">> ELSE <<>>)

\* [item, ...prev].slice(0, 10)
HistoryLimit == 10

\* Faulty variant of RecordHistory: the slice is forgotten
RecordHistoryUnbounded(item, prev) == <<item>> \o prev

RecordHistory(item, prev) ==
  LET all == <<item>> \o prev
  IN  SubSeq(all, 1, IF Len(all) < HistoryLimit THEN Len(all) ELSE HistoryLimit)

----------------------------------------------------------------------------
(* The AI boundary: what a generateContent call may return or throw *)

\* A parsed response object; a field the response omits is null
DorkObject(dorkField, refinedField, risk) ==
  [dork |-> dorkField,
   explanation |-> Some("explanation"),
   riskLevel |-> Some(risk),
   suggestedOperators |-> Some(<<"intitle:index.of", "inurl:config">>),
   validationAnalysis |-> Some("validation"),
   improvementReasoning |-> Some("improvement"),
   refinedObjective |-> refinedField]

\* dork "site:x", refinedObjective "b"
ObjClean == DorkObject(Some(<<115, 105, 116, 101, 58, 120>>), Some(<<98>>), "HIGH")

\* dork with a Cyrillic letter and one quote, refinedObjective " "
ObjCyrillic == DorkObject(Some(<<1089, 34>>), Some(<<32>>), "LOW")

\* the dork field is missing
ObjNoDork == DorkObject(NULL, Some(<<98>>), "INFO")

\* the refinedObjective field is missing
ObjNoRefined == DorkObject(Some(<<120>>), NULL, "INFO")

\* result.text of a response: undefined, "", text that is not JSON, or the
\* JSON text of an object
TextUndefined == [kind |-> "undefined", value |-> NULL]

TextEmpty == [kind |-> "empty", value |-> NULL]

TextMalformed == [kind |-> "malformed", value |-> NULL]

TextJson(obj) == [kind |-> "json", value |-> Some(obj)]

\* if (result.text)
TruthyText(text) == text.kind \in {"malformed", "json"}

GenerateTexts ==
  {TextUndefined, TextEmpty, TextMalformed, TextJson(ObjClean),
   TextJson(ObjCyrillic), TextJson(ObjNoDork), TextJson(ObjNoRefined)}

\* What a rejected call throws: the message of the thrown value, or null
\* when the thrown value has no message
Rejections == {NULL, Some("Failed to fetch")}

\* The string the enhancement call returns: undefined, "", " b ", " "
OptimizeTexts == {NULL, Some(<<>>), Some(<<32, 98, 32>>), Some(<<32>>)}

\* What the user may type into the objective field: "", " ", "a"
TypedInputs == {<<>>, <<32>>, <<97>>}

\* The manual override inputs the page renders, and what may be typed there
ManualNames == {"site", "textquery"}

ManualValues == {<<>>, <<120>>}

----------------------------------------------------------------------------
(* Handlers *)

\* Faulty variant of IsBlank: the objective is not trimmed
IsBlankNoTrim(inputToUse) == ~Truthy(inputToUse)

\* if (!inputToUse.trim()) return;
IsBlank(inputToUse) == ~Truthy(Trim(inputToUse))

\* Faulty variant of MissingKey: the credential is never checked
MissingKeyNever == FALSE

\* if (!process.env.API_KEY)
MissingKey == ~Truthy(API_KEY)

\* const inputToUse = overrideInput || naturalInput;
InputToUse(overrideInput) ==
  IF TruthyOpt(overrideInput) THEN overrideInput[1] ELSE naturalInput

\* Faulty variant of generateWithAI: the validation issues of the previous
\* result are not cleared on entry
generateWithAIKeepIssues(overrideInput, op) ==
  LET inputToUse == InputToUse(overrideInput)
  IN  IF IsBlank(inputToUse) THEN
        /\ lastOp' = Op(op, "blank", 0)
        /\ UNCHANGED <<dork, analysis, history, isLoading, isOptimizing, error,
                       syntaxErrors, manualParams, pending, calls, now, recorded>>
      ELSE IF MissingKey THEN
        /\ error' = Some(<<"ABORTED: API Key not found.">>)
        /\ lastOp' = Op(op, "nokey", 0)
        /\ UNCHANGED <<dork, analysis, history, isLoading, isOptimizing,
                       syntaxErrors, manualParams, pending, calls, now, recorded>>
      ELSE
        /\ calls < callBudget
        /\ isLoading' = TRUE
        /\ error' = NULL
        /\ analysis' = NULL
        /\ dork' = ManualEffect(NULL, manualParams, dork, analysis # NULL)
        /\ calls' = calls + 1
        /\ pending' = pending \cup {GenerateCall(calls + 1, inputToUse)}
        /\ lastOp' = Op(op, "pending", calls + 1)
        /\ UNCHANGED <<history, isOptimizing, syntaxErrors, manualParams, now,
                       recorded>>

\* generateWithAI(overrideInput?) up to its await; naturalInput is left to
\* the caller
generateWithAI(overrideInput, op) ==
  LET inputToUse == InputToUse(overrideInput)
  IN  IF IsBlank(inputToUse) THEN
        /\ lastOp' = Op(op, "blank", 0)
        /\ UNCHANGED <<dork, analysis, history, isLoading, isOptimizing, error,
                       syntaxErrors, manualParams, pending, calls, now, recorded>>
      ELSE IF MissingKey THEN
        /\ error' = Some(<<"ABORTED: API Key not found.">>)
        /\ lastOp' = Op(op, "nokey", 0)
        /\ UNCHANGED <<dork, analysis, history, isLoading, isOptimizing,
                       syntaxErrors, manualParams, pending, calls, now, recorded>>
      ELSE
        /\ calls < callBudget
        /\ isLoading' = TRUE
        /\ error' = NULL
        /\ syntaxErrors' = <<>>
        /\ analysis' = NULL
        /\ dork' = ManualEffect(NULL, manualParams, dork, analysis # NULL)
        /\ calls' = calls + 1
        /\ pending' = pending \cup {GenerateCall(calls + 1, inputToUse)}
        /\ lastOp' = Op(op, "pending", calls + 1)
        /\ UNCHANGED <<history, isOptimizing, manualParams, now, recorded>>

\* onChange of the objective field (the quick-add buttons of line 506 assign
\* the objective too, to whatever text the response suggested)
SetNaturalInput(value) ==
  /\ naturalInput' = value
  /\ lastOp' = Op("setNaturalInput", "set", 0)
  /\ UNCHANGED <<API_KEY, dork, analysis, history, isLoading, isOptimizing,
                 error, syntaxErrors, manualParams, pending, calls, now,
                 callBudget, vPayload, vIssues, recorded>>

\* The execute button: onClick={() => generateWithAI()}; while isLoading it
\* only carries the style class 'disabled', the handler stays attached
ExecuteClick ==
  /\ generateWithAI(NULL, "generateWithAI")
  /\ UNCHANGED <<API_KEY, naturalInput, callBudget, vPayload, vIssues>>

\* Ctrl+Enter in the objective field
CtrlEnter ==
  /\ generateWithAI(NULL, "generateWithAI")
  /\ UNCHANGED <<API_KEY, naturalInput, callBudget, vPayload, vIssues>>

\* Faulty variant of handleApplyImprovement: generateWithAI() is called with
\* no argument and reads the objective of the render it closed over
handleApplyImprovementStale ==
  /\ analysis # NULL
  /\ TruthyOpt(analysis[1].refinedObjective)
  /\ ~isLoading
  /\ naturalInput' = analysis[1].refinedObjective[1]
  /\ generateWithAI(NULL, "applyImprovement")
  /\ UNCHANGED <<API_KEY, callBudget, vPayload, vIssues>>

\* The refinement button (rendered when analysis.refinedObjective is truthy,
\* disabled while isLoading) and handleApplyImprovement
handleApplyImprovement ==
  /\ analysis # NULL
  /\ TruthyOpt(analysis[1].refinedObjective)
  /\ ~isLoading
  /\ naturalInput' = analysis[1].refinedObjective[1]
  /\ generateWithAI(analysis[1].refinedObjective, "applyImprovement")
  /\ UNCHANGED <<API_KEY, callBudget, vPayload, vIssues>>

\* handleManualChange with e.target.name = name, e.target.value = value
handleManualChange(name, value) ==
  LET next == [manualParams EXCEPT ![name] = value]
  IN  /\ analysis' = NULL
      /\ manualParams' = next
      /\ dork' = ManualEffect(NULL, next, dork, TRUE)
      /\ lastOp' = Op("manualChange", "set", 0)
      /\ UNCHANGED <<API_KEY, naturalInput, history, isLoading, isOptimizing,
                     error, syntaxErrors, pending, calls, now, callBudget,
                     vPayload, vIssues, recorded>>

\* Faulty variant of HistoryClick: the recalled query is not validated again
HistoryClickNoValidate(idx) ==
  LET item == history[idx]
  IN  /\ idx \in 1..Len(history)
      /\ naturalInput' = item.input
      /\ dork' = ManualEffect(Some(item.response), manualParams,
                              item.response.dork[1],
                              analysis # Some(item.response))
      /\ analysis' = Some(item.response)
      /\ lastOp' = Op("historyClick", "recalled", 0)
      /\ UNCHANGED <<API_KEY, history, isLoading, isOptimizing, error,
                     syntaxErrors, manualParams, pending, calls, now,
                     callBudget, vPayload, vIssues, recorded>>

\* onClick of the history item at position idx
HistoryClick(idx) ==
  LET item == history[idx]
  IN  /\ idx \in 1..Len(history)
      /\ naturalInput' = item.input
      /\ dork' = ManualEffect(Some(item.response), manualParams,
                              item.response.dork[1],
                              analysis # Some(item.response))
      /\ analysis' = Some(item.response)
      /\ syntaxErrors' = validatePayload(item.response.dork[1])
      /\ lastOp' = Op("historyClick", "recalled", 0)
      /\ UNCHANGED <<API_KEY, history, isLoading, isOptimizing, error,
                     manualParams, pending, calls, now, callBudget, vPayload,
                     vIssues, recorded>>

\* The catch and finally blocks of generateWithAI for the call `call`
GenerateFailed(call, err, op) ==
  /\ error' = Some(UplinkError(err))
  /\ isLoading' = FALSE
  /\ pending' = pending \ {call}
  /\ lastOp' = Op(op, "failed", call.id)
  /\ UNCHANGED <<API_KEY, naturalInput, dork, analysis, history, isOptimizing,
                 syntaxErrors, manualParams, calls, now, callBudget, vPayload,
                 vIssues, recorded>>

\* new HistoryItem: {timestamp: Date.now(), input: inputToUse, response: data}
HistoryItem(timestamp, input, response) ==
  [timestamp |-> timestamp, input |-> input, response |-> response]

\* Faulty variant of GenerateSucceeded: the manual inputs are not cleared
GenerateSucceededKeepManual(call, data, t) ==
  LET item == HistoryItem(t, call.input, data)
  IN  /\ syntaxErrors' = validatePayload(data.dork[1])
      /\ dork' = ManualEffect(Some(data), manualParams, data.dork[1], TRUE)
      /\ analysis' = Some(data)
      /\ history' = RecordHistory(item, history)
      /\ isLoading' = FALSE
      /\ now' = t
      /\ pending' = pending \ {call}
      /\ recorded' = <<item>> \o recorded
      /\ lastOp' = Op("generateResolve", "success", call.id)
      /\ UNCHANGED <<API_KEY, naturalInput, isOptimizing, error, calls,
                     callBudget, vPayload, vIssues, manualParams>>

\* Variant of GenerateSucceeded with a sequence token: a response that is
\* not the latest call's is discarded
GenerateSucceededLatestOnly(call, data, t) ==
  LET item == HistoryItem(t, call.input, data)
  IN  IF call.id = calls THEN
        /\ syntaxErrors' = validatePayload(data.dork[1])
        /\ dork' = ManualEffect(Some(data), EmptyManualParams, data.dork[1], TRUE)
        /\ analysis' = Some(data)
        /\ history' = RecordHistory(item, history)
        /\ manualParams' = EmptyManualParams
        /\ isLoading' = FALSE
        /\ now' = t
        /\ pending' = pending \ {call}
        /\ recorded' = <<item>> \o recorded
        /\ lastOp' = Op("generateResolve", "success", call.id)
        /\ UNCHANGED <<API_KEY, naturalInput, isOptimizing, error, calls,
                       callBudget, vPayload, vIssues>>
      ELSE
        /\ isLoading' = FALSE
        /\ pending' = pending \ {call}
        /\ lastOp' = Op("generateResolve", "stale", call.id)
        /\ UNCHANGED <<API_KEY, naturalInput, dork, analysis, history,
                       isOptimizing, error, syntaxErrors, manualParams, calls,
                       now, callBudget, vPayload, vIssues, recorded>>

\* Faulty variant of GenerateSucceeded: the entry records the objective the
\* session holds when the call returns, not the one the cycle started with
GenerateSucceededCurrentInput(call, data, t) ==
  LET item == HistoryItem(t, naturalInput, data)
  IN  /\ syntaxErrors' = validatePayload(data.dork[1])
      /\ dork' = ManualEffect(Some(data), EmptyManualParams, data.dork[1], TRUE)
      /\ analysis' = Some(data)
      /\ history' = RecordHistory(item, history)
      /\ manualParams' = EmptyManualParams
      /\ isLoading' = FALSE
      /\ now' = t
      /\ pending' = pending \ {call}
      /\ recorded' = <<item>> \o recorded
      /\ lastOp' = Op("generateResolve", "success", call.id)
      /\ UNCHANGED <<API_KEY, naturalInput, isOptimizing, error, calls,
                     callBudget, vPayload, vIssues>>

\* The body of if (result.text) once JSON.parse and validatePayload returned
GenerateSucceeded(call, data, t) ==
  LET item == HistoryItem(t, call.input, data)
  IN  /\ syntaxErrors' = validatePayload(data.dork[1])
      /\ dork' = ManualEffect(Some(data), EmptyManualParams, data.dork[1], TRUE)
      /\ analysis' = Some(data)
      /\ history' = RecordHistory(item, history)
      /\ manualParams' = EmptyManualParams
      /\ isLoading' = FALSE
      /\ now' = t
      /\ pending' = pending \ {call}
      /\ recorded' = <<item>> \o recorded
      /\ lastOp' = Op("generateResolve", "success", call.id)
      /\ UNCHANGED <<API_KEY, naturalInput, isOptimizing, error, calls,
                     callBudget, vPayload, vIssues>>

\* generateWithAI after its await, when the call returned a response whose
\* text is `text`; t is what Date.now() returns
GenerateResolve(call, text, t) ==
  /\ call \in pending
  /\ call.kind = "generate"
  /\ t \in {now, now + 1}
  /\ IF ~TruthyText(text) THEN
       /\ isLoading' = FALSE
       /\ pending' = pending \ {call}
       /\ lastOp' = Op("generateResolve", "emptytext", call.id)
       /\ UNCHANGED <<API_KEY, naturalInput, dork, analysis, history,
                      isOptimizing, error, syntaxErrors, manualParams, calls,
                      now, callBudget, vPayload, vIssues, recorded>>
     ELSE IF text.kind = "malformed" THEN
       \* JSON.parse throws a SyntaxError
       GenerateFailed(call, Some("Unexpected token < in JSON at position 0"),
                      "generateResolve")
     ELSE IF text.value[1].dork = NULL THEN
       \* payload.match throws a TypeError inside validatePayload
       GenerateFailed(call,
                      Some("Cannot read properties of undefined (reading 'match')"),
                      "generateResolve")
     ELSE
       GenerateSucceeded(call, text.value[1], t)

\* generateWithAI after its await, when the call threw
GenerateReject(call, err) ==
  /\ call \in pending
  /\ call.kind = "generate"
  /\ GenerateFailed(call, err, "generateReject")

\* The enhance button (disabled while isOptimizing or when the objective is
\* empty) and handleOptimizePrompt up to its await
handleOptimizePrompt ==
  /\ ~isOptimizing
  /\ Truthy(naturalInput)
  /\ IF IsBlank(naturalInput) THEN
       /\ lastOp' = Op("optimize", "blank", 0)
       /\ UNCHANGED <<isOptimizing, error, pending, calls>>
     ELSE IF MissingKey THEN
       /\ error' = Some(<<"API Key missing.">>)
       /\ lastOp' = Op("optimize", "nokey", 0)
       /\ UNCHANGED <<isOptimizing, pending, calls>>
     ELSE
       /\ calls < callBudget
       /\ isOptimizing' = TRUE
       /\ error' = NULL
       /\ calls' = calls + 1
       /\ pending' = pending \cup {OptimizeCall(calls + 1, naturalInput)}
       /\ lastOp' = Op("optimize", "pending", calls + 1)
  /\ UNCHANGED <<API_KEY, naturalInput, dork, analysis, history, isLoading,
                 syntaxErrors, manualParams, now, callBudget, vPayload,
                 vIssues, recorded>>

\* Faulty variant of OptimizeResolve: the response text is not trimmed
OptimizeResolveNoTrim(call, text) ==
  /\ call \in pending
  /\ call.kind = "optimize"
  /\ naturalInput' = IF TruthyOpt(text) THEN text[1] ELSE naturalInput
  /\ isOptimizing' = FALSE
  /\ pending' = pending \ {call}
  /\ lastOp' = Op("optimizeResolve", IF TruthyOpt(text) THEN "success"
                                                           ELSE "emptytext", call.id)
  /\ UNCHANGED <<API_KEY, dork, analysis, history, isLoading, error,
                 syntaxErrors, manualParams, calls, now, callBudget, vPayload,
                 vIssues, recorded>>

\* handleOptimizePrompt after its await, when the call returned `text`
OptimizeResolve(call, text) ==
  /\ call \in pending
  /\ call.kind = "optimize"
  /\ naturalInput' = IF TruthyOpt(text) THEN Trim(text[1]) ELSE naturalInput
  /\ isOptimizing' = FALSE
  /\ pending' = pending \ {call}
  /\ lastOp' = Op("optimizeResolve", IF TruthyOpt(text) THEN "success"
                                                           ELSE "emptytext", call.id)
  /\ UNCHANGED <<API_KEY, dork, analysis, history, isLoading, error,
                 syntaxErrors, manualParams, calls, now, callBudget, vPayload,
                 vIssues, recorded>>

\* handleOptimizePrompt after its await, when the call threw
OptimizeReject(call) ==
  /\ call \in pending
  /\ call.kind = "optimize"
  /\ error' = Some(<<"Optimization failed. Check connectivity.">>)
  /\ isOptimizing' = FALSE
  /\ pending' = pending \ {call}
  /\ lastOp' = Op("optimizeReject", "failed", call.id)
  /\ UNCHANGED <<API_KEY, naturalInput, dork, analysis, history, isLoading,
                 syntaxErrors, manualParams, calls, now, callBudget, vPayload,
                 vIssues, recorded>>

----------------------------------------------------------------------------
(* The session *)

\* The state after the first render and its mount effects
InitSession(key, budget, payload) ==
  /\ API_KEY = key
  /\ naturalInput = <<>>
  /\ dork = <<>>
  /\ analysis = NULL
  /\ history = <<>>
  /\ isLoading = FALSE
  /\ isOptimizing = FALSE
  /\ error = IF ~Truthy(key)
               THEN Some(<<"SYSTEM ALERT: API_KEY is missing. Configure Vercel Environment Variables.">>)
               ELSE NULL
  /\ syntaxErrors = <<>>
  /\ manualParams = EmptyManualParams
  /\ pending = {}
  /\ calls = 0
  /\ now = 0
  /\ callBudget = budget
  /\ vPayload = payload
  /\ vIssues = NULL
  /\ recorded = <<>>
  /\ lastOp = Op("mount", "mounted", 0)

Init ==
  \E systemEnv \in EnvValues, dotEnv \in EnvValues :
    InitSession(defineApiKey(systemEnv, dotEnv), MaxCalls, <<>>)

Next ==
  \/ \E value \in TypedInputs : SetNaturalInput(value)
  \/ CtrlEnter
  \/ ExecuteClick
  \/ handleApplyImprovement
  \/ \E name \in ManualNames, value \in ManualValues : handleManualChange(name, value)
  \/ \E idx \in 1..Len(history) : HistoryClick(idx)
  \/ handleOptimizePrompt
  \/ \E call \in pending, text \in GenerateTexts :
       GenerateResolve(call, text, now + 1)
  \/ \E call \in pending, err \in Rejections : GenerateReject(call, err)
  \/ \E call \in pending, text \in OptimizeTexts : OptimizeResolve(call, text)
  \/ \E call \in pending : OptimizeReject(call)

Spec == Init /\ [][Next]_vars

----------------------------------------------------------------------------
(* The history ledger: a session with a credential that only generates,    *)
(* long enough for the ledger to overflow.                                 *)

LedgerTexts == {TextJson(ObjClean)}

InitLedger == InitSession(<<107>>, MaxLedgerCalls, <<>>)

NextLedger ==
  \/ SetNaturalInput(<<97>>)
  \/ (Cardinality(pending) < MaxLedgerInFlight /\ CtrlEnter)
  \/ \E call \in pending, text \in LedgerTexts : GenerateResolve(call, text, now + 1)

SpecLedger == InitLedger /\ [][NextLedger]_vars

----------------------------------------------------------------------------
(* Termination of generation cycles: a session with a credential in which  *)
(* the user may start generations without end and every call in flight    *)
(* eventually returns or throws. The identity of a completed call is       *)
(* reused, so that the session has finitely many states.                   *)

MaxLiveInFlight == 2

MaxLiveSuccesses == 2

FreeIds == (1..MaxLiveInFlight) \ {c.id : c \in pending}

\* Ctrl+Enter with a non-blank objective and a credential: lines 170-173 of
\* generateWithAI and its call, which takes a free identity
CtrlEnterLive ==
  /\ ~IsBlank(naturalInput)
  /\ ~MissingKey
  /\ \E id \in FreeIds :
       /\ pending' = pending \cup {GenerateCall(id, naturalInput)}
       /\ lastOp' = Op("generateWithAI", "pending", id)
  /\ isLoading' = TRUE
  /\ error' = NULL
  /\ syntaxErrors' = <<>>
  /\ analysis' = NULL
  /\ dork' = ManualEffect(NULL, manualParams, dork, analysis # NULL)
  /\ UNCHANGED <<API_KEY, naturalInput, history, isOptimizing, manualParams,
                 calls, now, callBudget, vPayload, vIssues, recorded>>

\* Response texts of the calls that do not succeed
LiveFailTexts == {TextEmpty, TextMalformed}

\* The call with identity id returns a result (while the ledger of the
\* session may still grow), returns no usable text, or throws
LiveComplete(id) ==
  \E call \in pending :
    /\ call.id = id
    /\ \/ /\ Len(recorded) < MaxLiveSuccesses
          /\ GenerateResolve(call, TextJson(ObjClean), now + 1)
       \/ \E text \in LiveFailTexts : GenerateResolve(call, text, now + 1)
       \/ GenerateReject(call, NULL)

InitLive == InitSession(<<107>>, 0, <<>>)

NextLive ==
  \/ SetNaturalInput(<<97>>)
  \/ CtrlEnterLive
  \/ \E id \in 1..MaxLiveInFlight : LiveComplete(id)

\* Every boundary call eventually returns or throws
SpecLive ==
  /\ InitLive
  /\ [][NextLive]_vars
  /\ \A id \in 1..MaxLiveInFlight : WF_vars(LiveComplete(id))

----------------------------------------------------------------------------
(* The validator on its own: validatePayload applied to bounded strings    *)

\* ASCII and Cyrillic fragments payloads are built from
Pieces ==
  { <<115, 105, 116, 101>>,                          \* site
    <<101, 120, 116>>,                               \* ext
    <<105, 110, 117, 114, 108>>,                     \* inurl
    <<105, 110, 116, 105, 116, 108, 101>>,           \* intitle
    <<102, 105, 108, 101, 116, 121, 112, 101>>,      \* filetype
    <<105, 110, 116, 101, 120, 116>>,                \* intext
    <<58>>,                                          \* :
    <<32>>,                                          \* space
    <<9>>,                                           \* tab
    <<34>>,                                          \* "
    <<45>>,                                          \* -
    <<120>>,                                         \* x
    <<1089>>,                                        \* U+0441, Russian es
    <<1025>>,                                        \* U+0401, Russian IO
    <<1105>>,                                        \* U+0451, Russian io
    <<1110>> }                                       \* U+0456, Ukrainian i

PieceSeqs == UNION {[1..k -> Pieces] : k \in 0..MaxPieces}

Payloads == {Flatten(p) : p \in PieceSeqs}

InitValidate == \E p \in Payloads : InitSession(<<107>>, MaxCalls, p)

\* const issues = validatePayload(vPayload)
Validate ==
  /\ vIssues = NULL
  /\ vIssues' = Some(validatePayload(vPayload))
  /\ lastOp' = Op("validatePayload", "returned", 0)
  /\ UNCHANGED <<API_KEY, naturalInput, dork, analysis, history, isLoading,
                 isOptimizing, error, syntaxErrors, manualParams, pending,
                 calls, now, callBudget, vPayload, recorded>>

NextValidate == Validate

SpecValidate == InitValidate /\ [][NextValidate]_vars

----------------------------------------------------------------------------
(* Properties *)

Range(seq) == {seq[i] : i \in 1..Len(seq)}

\* The first n elements of seq, or all of it when it is shorter
Prefix(seq, n) == SubSeq(seq, 1, IF Len(seq) < n THEN Len(seq) ELSE n)

\* A parsed object that has every field of the response schema
IsGenerationResult(obj) ==
  /\ obj.dork # NULL
  /\ obj.explanation # NULL
  /\ obj.riskLevel # NULL
  /\ obj.suggestedOperators # NULL
  /\ obj.validationAnalysis # NULL
  /\ obj.improvementReasoning # NULL
  /\ obj.refinedObjective # NULL

GenerationResults == {ObjClean, ObjCyrillic}

GenerateCalls == {c \in pending : c.kind = "generate"}

\* Some step of one of the triggers of generateWithAI() with no argument
GenerateTrigger == ExecuteClick \/ CtrlEnter

\* Everything a handler can see or change, except the objective
ExceptObjective ==
  <<dork, analysis, history, isLoading, isOptimizing, error, syntaxErrors,
    manualParams, pending, calls>>

(* C1: the ledger holds at most 10 entries, newest first by completion,     *)
(* and they are exactly the min(n,10) most recently recorded of the n       *)
(* entries recorded so far; a step that records an entry prepends it and    *)
(* keeps the entries that remain in their order, unchanged.                 *)
C1_LedgerInvariant ==
  /\ Len(history) <= 10
  /\ history = Prefix(recorded, 10)
  /\ \A i \in 1..Len(history) : \A j \in 1..Len(history) :
       i < j => history[i].timestamp >= history[j].timestamp

C1_RecordStep ==
  history' # history =>
    /\ Len(history') >= 1
    /\ Len(history') = (IF Len(history) < 10 THEN Len(history) + 1 ELSE 10)
    /\ \A i \in 2..Len(history') : history'[i] = history[i - 1]

C1_Ledger == [](C1_LedgerInvariant) /\ [][C1_RecordStep]_vars

\* Eleven entries were recorded, the last by call 10, which overlapped call
\* 11 and completed after it; the first entry recorded has been evicted
C1_Witness ==
  /\ Len(recorded) = 11
  /\ Len(history) = 10
  /\ lastOp = Op("generateResolve", "success", 10)
  /\ history[10] = recorded[10]
  /\ recorded[11] \notin Range(history)

(* C2: a generation invoked with a blank effective objective (the override  *)
(* if given, else the session objective) makes no boundary call and         *)
(* changes no session variable; the refinement handler's own assignment of  *)
(* the objective, made before it invokes generation, is the only change of  *)
(* such a refinement step.                                                  *)
C2_BlankStep ==
  /\ (GenerateTrigger /\ Trim(naturalInput) = <<>>)
       => UNCHANGED <<naturalInput, ExceptObjective>>
  /\ (handleApplyImprovement /\ Trim(analysis[1].refinedObjective[1]) = <<>>)
       => UNCHANGED ExceptObjective

C2_BlankGenerationNoOp == [][C2_BlankStep]_vars

\* Generation was invoked with the whitespace-only objective " "
C2_Witness ==
  /\ lastOp = Op("generateWithAI", "blank", 0)
  /\ naturalInput = <<32>>

(* C3: a generation invoked with a non-blank objective and no credential    *)
(* sets the error, makes no boundary call, leaves the busy flag clear and   *)
(* leaves query, result, issues, history and manual fields unchanged.       *)
C3_NoCredentialStep ==
  (GenerateTrigger /\ Trim(naturalInput) # <<>> /\ API_KEY = <<>>) =>
    /\ error' = Some(<<"ABORTED: API Key not found.">>)
    /\ isLoading = FALSE
    /\ UNCHANGED <<naturalInput, dork, analysis, history, isLoading,
                   isOptimizing, syntaxErrors, manualParams, pending, calls>>

C3_NoCredential == [][C3_NoCredentialStep]_vars

\* Generation was invoked with objective "a" in a build without a credential
C3_Witness ==
  /\ lastOp = Op("generateWithAI", "nokey", 0)
  /\ API_KEY = <<>>
  /\ naturalInput = <<97>>
  /\ error = Some(<<"ABORTED: API Key not found.">>)
  /\ manualParams # EmptyManualParams

\* What refinement does when it starts a cycle with objective x
C4_Refined(x) ==
  /\ naturalInput' = x
  /\ calls' = calls + 1
  /\ pending' = pending \cup {GenerateCall(calls + 1, x)}
  /\ isLoading'

(* C4 as stated: with an active result whose refinedObjective is a          *)
(* non-empty string X, refinement sets the objective to X and starts        *)
(* exactly one generation cycle with X.                                     *)
C4_OriginalStep ==
  (handleApplyImprovement /\ Len(analysis[1].refinedObjective[1]) > 0)
    => C4_Refined(analysis[1].refinedObjective[1])

C4_Original == [][C4_OriginalStep]_vars

(* C4 amended: with an active result whose refinedObjective X has a         *)
(* character that is not whitespace, refinement sets the objective to X     *)
(* and starts exactly one generation cycle with X; for a non-empty X of     *)
(* whitespace only it sets the objective to X and starts no cycle.          *)
C4_AmendedStep ==
  /\ (handleApplyImprovement /\ Trim(analysis[1].refinedObjective[1]) # <<>>)
       => C4_Refined(analysis[1].refinedObjective[1])
  /\ (handleApplyImprovement /\ Trim(analysis[1].refinedObjective[1]) = <<>>)
       => /\ naturalInput' = analysis[1].refinedObjective[1]
          /\ UNCHANGED <<pending, calls>>

C4_Amended == [][C4_AmendedStep]_vars

\* Refinement started the cycle of call 2 with objective "b" while the
\* objective typed by the user was "a"
C4_Witness ==
  /\ lastOp = Op("applyImprovement", "pending", 2)
  /\ naturalInput = <<98>>
  /\ GenerateCall(2, <<98>>) \in pending
  /\ \E i \in 1..Len(history) : history[i].input = <<97>>

\* What a successful completion of `call` with result obj does
C5_Stored(call, obj) ==
  /\ syntaxErrors' = validatePayload(obj.dork[1])
  /\ dork' = obj.dork[1]
  /\ analysis' = Some(obj)
  /\ Len(history') >= 1
  /\ history'[1].input = call.input
  /\ history'[1].response = obj
  /\ Tail(history') = Prefix(history, 9)
  /\ manualParams' = EmptyManualParams

(* C5: every completion whose text parses to a GenerationResult sets the    *)
(* issues to validate(result.query), the query to result.query and the      *)
(* result to the current result, prepends one HistoryEntry pairing the      *)
(* cycle's objective with the result, and clears the manual fields,         *)
(* whatever the validator finds.                                            *)
C5_SuccessStep ==
  \A call \in GenerateCalls : \A obj \in GenerationResults :
    \A t \in {now, now + 1} :
      (IsGenerationResult(obj) /\ GenerateResolve(call, TextJson(obj), t))
        => C5_Stored(call, obj)

C5_Success == [][C5_SuccessStep]_vars

\* A result whose query has validation issues was stored over manual fields
C5_Witness ==
  /\ lastOp.outcome = "success"
  /\ syntaxErrors = <<IssueCyrillic, IssueQuotes>>
  /\ dork = <<1089, 34>>
  /\ analysis = Some(ObjCyrillic)
  /\ manualParams = EmptyManualParams
  /\ Len(history) = 2

\* What a failed completion does; err is the cause the exception carries
C6_Surfaced(err) ==
  /\ error' # NULL
  /\ error'[1][1] = "UPLINK ERROR: Unable to generate strategy."
  /\ (err # NULL /\ err[1] # "") => err[1] \in Range(error'[1])
  /\ isLoading' = FALSE
  /\ UNCHANGED <<dork, analysis, history, manualParams, syntaxErrors>>

(* C6: when the boundary call throws or its text is not JSON, the cycle     *)
(* ends with an error message that contains the cause text when there is    *)
(* one, stores no result, adds no HistoryEntry, leaves the manual fields    *)
(* alone and clears the busy flag, so that a new request is accepted.       *)
C6_FailureStep ==
  /\ \A call \in GenerateCalls : \A err \in Rejections :
       GenerateReject(call, err) => C6_Surfaced(err)
  /\ \A call \in GenerateCalls : \A t \in {now, now + 1} :
       GenerateResolve(call, TextMalformed, t)
         => C6_Surfaced(Some("Unexpected token < in JSON at position 0"))

C6_Failure == [][C6_FailureStep]_vars

\* A call threw "Failed to fetch" and the message shows it
C6_Witness ==
  /\ lastOp.op = "generateReject"
  /\ lastOp.outcome = "failed"
  /\ error = Some(<<"UPLINK ERROR: Unable to generate strategy.", " [",
                    "Failed to fetch", "]">>)
  /\ ~isLoading

(* C7: in every reachable state at most one generation boundary call is     *)
(* pending.                                                                 *)
C7_SingleFlight == Cardinality(GenerateCalls) <= 1

(* C8: when generations overlap, the response of each is applied when it    *)
(* arrives: a successful response of a call older than the latest one       *)
(* still becomes the current query and result and still adds its            *)
(* HistoryEntry.                                                            *)
C8_StaleStep ==
  \A call \in GenerateCalls : \A obj \in GenerationResults :
    \A t \in {now, now + 1} :
      (call.id < calls /\ GenerateResolve(call, TextJson(obj), t)) =>
        /\ dork' = obj.dork[1]
        /\ analysis' = Some(obj)
        /\ Len(history') = Len(history) + 1
        /\ history'[1] = HistoryItem(t, call.input, obj)

C8_LastWriterWins == [][C8_StaleStep]_vars

\* Call 2 succeeded first, call 1 (older) last: the session shows call 1's
\* result and the ledger holds both
C8_Witness ==
  /\ lastOp = Op("generateResolve", "success", 1)
  /\ calls = 2
  /\ Len(history) = 2
  /\ analysis = Some(history[1].response)
  /\ dork = history[1].response.dork[1]
  /\ history[1].response # history[2].response

\* The Cyrillic block of Unicode, U+0400..U+04FF
CyrillicBlock == 1024..1279

(* C9: for every query string with at least one character in the Cyrillic   *)
(* range, validate returns the CRITICAL ASCII violation.                    *)
C9_CyrillicFlagged ==
  (vIssues # NULL /\ \E i \in 1..Len(vPayload) : vPayload[i] \in CyrillicBlock)
    => IssueCyrillic \in Range(vIssues[1])

\* Number of double-quote characters of a string
RECURSIVE CountQuotes(_)
CountQuotes(str) ==
  IF str = <<>> THEN 0
  ELSE (IF Head(str) = 34 THEN 1 ELSE 0) + CountQuotes(Tail(str))

(* C10: validate reports the unbalanced-quotes SYNTAX ERROR exactly when    *)
(* the number of double-quote characters of the string is odd.              *)
C10_QuoteParity ==
  vIssues # NULL =>
    (IssueQuotes \in Range(vIssues[1]) <=> CountQuotes(vPayload) % 2 = 1)

\* validate ran on a string with three quotes and reported them
C10_Witness ==
  /\ vIssues # NULL
  /\ CountQuotes(vPayload) = 3
  /\ IssueQuotes \in Range(vIssues[1])

\* The operators the specification recognizes: site, inurl, intitle,
\* filetype, ext, intext (a negated form contains the operator itself)
RecognizedOperators ==
  { <<115, 105, 116, 101>>,
    <<105, 110, 117, 114, 108>>,
    <<105, 110, 116, 105, 116, 108, 101>>,
    <<102, 105, 108, 101, 116, 121, 112, 101>>,
    <<101, 120, 116>>,
    <<105, 110, 116, 101, 120, 116>> }

\* A recognized operator, its colon, then whitespace, somewhere in str
SpacedOperator(str) ==
  \E w \in RecognizedOperators : \E i \in 1..Len(str) :
    /\ i + Len(w) + 1 <= Len(str)
    /\ \A k \in 1..Len(w) : str[i + k - 1] = w[k]
    /\ str[i + Len(w)] = 58
    /\ str[i + Len(w) + 1] \in WhiteSpace

\* "site:example.com"
SiteExample ==
  <<115, 105, 116, 101, 58, 101, 120, 97, 109, 112, 108, 101, 46, 99, 111, 109>>

(* C11: for every query string in which a recognized operator (site,        *)
(* inurl, intitle, filetype, ext, intext, or a negated form) is followed    *)
(* by its colon and then whitespace, validate emits the SYNTAX WARNING;     *)
(* validate("site:example.com") emits none.                                 *)
C11_SpacingFlagged ==
  /\ (vIssues # NULL /\ SpacedOperator(vPayload))
       => IssueSpacing \in Range(vIssues[1])
  /\ IssueSpacing \notin Range(validatePayload(SiteExample))

\* A character of the Cyrillic block somewhere in str
HasCyrillic(str) == \E i \in 1..Len(str) : str[i] \in CyrillicBlock

\* The issues the specification's three checks call for, in its order
ExpectedIssues(str) ==
  (IF HasCyrillic(str) THEN <<IssueCyrillic>> ELSE <<>>)
  \o (IF CountQuotes(str) % 2 = 1 THEN <<IssueQuotes>> ELSE <<>>)
  \o (IF SpacedOperator(str) THEN <<IssueSpacing>> ELSE <<>>)

(* C12: the three checks are independent: each issue is present exactly     *)
(* when its own condition holds, whatever the others find, in the order     *)
(* Cyrillic CRITICAL, unbalanced-quotes SYNTAX ERROR, operator-spacing      *)
(* SYNTAX WARNING; validate changes no session state.                       *)
C12_IndependentChecks ==
  vIssues # NULL =>
    /\ vIssues[1] = ExpectedIssues(vPayload)
    /\ <<naturalInput, dork, analysis, history, isLoading, isOptimizing,
         error, syntaxErrors, manualParams>>
         = <<<<>>, <<>>, NULL, <<>>, FALSE, FALSE, NULL, <<>>, EmptyManualParams>>

\* The conditions as validatePayload tests them: a letter of the Russian
\* alphabet, an odd number of quotes, ext / site / inurl / intitle spaced
RussianLetter(c) ==
  \/ (1040 <= c /\ c <= 1103)
  \/ c = 1025
  \/ c = 1105

SpacedAsTested(str) ==
  \E w \in {<<101, 120, 116>>, <<115, 105, 116, 101>>,
            <<105, 110, 117, 114, 108>>, <<105, 110, 116, 105, 116, 108, 101>>} :
    \E i \in 1..Len(str) :
      /\ i + Len(w) + 1 <= Len(str)
      /\ \A k \in 1..Len(w) : str[i + k - 1] = w[k]
      /\ str[i + Len(w)] = 58
      /\ str[i + Len(w) + 1] \in WhiteSpace

\* With each check's condition taken as the code tests it, the checks are
\* independent and ordered: no check hides or reorders another
C12_IndependentAsTested ==
  vIssues # NULL =>
    vIssues[1] =
      (IF \E i \in 1..Len(vPayload) : RussianLetter(vPayload[i])
         THEN <<IssueCyrillic>> ELSE <<>>)
      \o (IF CountQuotes(vPayload) % 2 = 1 THEN <<IssueQuotes>> ELSE <<>>)
      \o (IF SpacedAsTested(vPayload) THEN <<IssueSpacing>> ELSE <<>>)

\* Parsed objects that omit one required field
IncompleteResults == {ObjNoDork, ObjNoRefined}

(* C13: a response that parses as JSON but omits one of the seven required  *)
(* fields is a failure: an error is surfaced, the object does not become    *)
(* the current result and no HistoryEntry is recorded.                      *)
C13_MissingFieldStep ==
  \A call \in GenerateCalls : \A obj \in IncompleteResults :
    (~IsGenerationResult(obj) /\ GenerateResolve(call, TextJson(obj), now + 1))
      => /\ error' # NULL
         /\ analysis' # Some(obj)
         /\ history' = history

C13_SchemaError == [][C13_MissingFieldStep]_vars

(* C14: every completed generation cycle ends in Success (a result is       *)
(* stored) or in Failed (an error message is set): no completion, a         *)
(* response with empty text included, leaves the session with neither a     *)
(* result nor an error.                                                     *)
C14_SuccessOrFailed ==
  lastOp.op \in {"generateResolve", "generateReject"}
    => (analysis # NULL \/ error # NULL)

\* What entry to Pending with effective objective x does
C15_Entered(x) ==
  /\ isLoading' = TRUE
  /\ error' = NULL
  /\ syntaxErrors' = <<>>
  /\ analysis' = NULL
  /\ calls' = calls + 1
  /\ pending' = pending \cup {GenerateCall(calls + 1, x)}
  /\ history' = history

(* C15: a generation invoked with a non-blank effective objective and a     *)
(* credential sets the busy flag, clears the prior error, the prior issues  *)
(* and the prior result in the step that makes the boundary call, and       *)
(* leaves the history unchanged; the objective stays what it was (for the   *)
(* refinement handler, what the handler assigned before invoking it).       *)
C15_EntryStep ==
  /\ (GenerateTrigger /\ Trim(naturalInput) # <<>> /\ API_KEY # <<>>)
       => (C15_Entered(naturalInput) /\ naturalInput' = naturalInput)
  /\ (handleApplyImprovement /\ Trim(analysis[1].refinedObjective[1]) # <<>>
        /\ API_KEY # <<>>)
       => (C15_Entered(analysis[1].refinedObjective[1])
           /\ naturalInput' = analysis[1].refinedObjective[1])

C15_PendingEntry == [][C15_EntryStep]_vars

\* The second cycle was entered over a stored result that had issues
C15_Witness ==
  /\ lastOp = Op("generateWithAI", "pending", 2)
  /\ Len(history) = 1
  /\ history[1].response = ObjCyrillic
  /\ isLoading
  /\ error = NULL
  /\ syntaxErrors = <<>>
  /\ analysis = NULL
  /\ naturalInput = <<97>>

(* C16: recalling any ledger entry sets the objective to the entry's        *)
(* objective, the result and the query to the entry's result and its query  *)
(* and the issues to validate(entry.result.query); it makes no boundary     *)
(* call and leaves the ledger unchanged.                                    *)
C16_RecallStep ==
  \A idx \in 1..Len(history) :
    HistoryClick(idx) =>
      /\ naturalInput' = history[idx].input
      /\ analysis' = Some(history[idx].response)
      /\ dork' = history[idx].response.dork[1]
      /\ syntaxErrors' = validatePayload(history[idx].response.dork[1])
      /\ UNCHANGED <<history, pending, calls>>

C16_Recall == [][C16_RecallStep]_vars

\* The older of two entries was recalled, and its query has issues
C16_Witness ==
  /\ lastOp = Op("historyClick", "recalled", 0)
  /\ Len(history) = 2
  /\ history[1].response = ObjClean
  /\ history[2].response = ObjCyrillic
  /\ analysis = Some(ObjCyrillic)
  /\ dork = <<1089, 34>>
  /\ syntaxErrors = <<IssueCyrillic, IssueQuotes>>
  /\ naturalInput = history[2].input

\* Every manual edit clears the current result
C17_ManualClearsStep ==
  \A name \in ManualNames : \A value \in ManualValues :
    handleManualChange(name, value) => analysis' = NULL

\* While a result is active every manual field is empty
C17_Exclusive == analysis # NULL => manualParams = EmptyManualParams

(* C17: setting any manual field clears the current result, and in every    *)
(* reachable state in which a result is active (after a successful          *)
(* generation or a recall) all manual fields are empty.                     *)
C17_MutuallyExclusive == [](C17_Exclusive) /\ [][C17_ManualClearsStep]_vars

OptimizeCalls == {c \in pending : c.kind = "optimize"}

\* What no step of an enhancement pass changes
C18_Frame == UNCHANGED <<dork, analysis, syntaxErrors, history, isLoading>>

(* C18: an enhancement pass with a non-blank objective and a credential     *)
(* replaces the objective with the trimmed response text when the response  *)
(* is non-empty, and on failure sets an error and leaves the objective      *)
(* unchanged; no step of it changes the query, the result, the issues, the  *)
(* history or the generation busy flag, and its own busy flag is cleared    *)
(* when it completes.                                                       *)
C18_EnhanceStep ==
  /\ (handleOptimizePrompt /\ Trim(naturalInput) # <<>> /\ API_KEY # <<>>)
       => /\ isOptimizing' = TRUE
          /\ pending' = pending \cup {OptimizeCall(calls + 1, naturalInput)}
          /\ naturalInput' = naturalInput
          /\ C18_Frame
  /\ \A call \in OptimizeCalls : \A text \in OptimizeTexts :
       OptimizeResolve(call, text)
         => /\ (text # NULL /\ text[1] # <<>>) => naturalInput' = Trim(text[1])
            /\ isOptimizing' = FALSE
            /\ C18_Frame
  /\ \A call \in OptimizeCalls :
       OptimizeReject(call)
         => /\ error' # NULL
            /\ naturalInput' = naturalInput
            /\ isOptimizing' = FALSE
            /\ C18_Frame

C18_Enhancement == [][C18_EnhanceStep]_vars

\* The response " b " replaced the objective by "b" next to a stored result
C18_Witness ==
  /\ lastOp = Op("optimizeResolve", "success", 2)
  /\ naturalInput = <<98>>
  /\ ~isOptimizing
  /\ analysis = Some(ObjCyrillic)
  /\ syntaxErrors # <<>>
  /\ Len(history) = 1
  /\ history[1].input = <<97>>

(* C19: whenever no result is active, the query is the composition of the   *)
(* manual fields: the non-empty fields joined by single spaces in the order *)
(* site, inurl, intitle (quoted), filetype, free text (quoted), and the     *)
(* empty string when every field is empty.                                  *)
C19_ManualComposition ==
  analysis = NULL => dork = JoinSpace(ManualParts(manualParams))

(* C20: in every reachable state, validation issues that are not empty are  *)
(* those of the query the session holds.                                    *)
C20_IssuesDescribeQuery ==
  syntaxErrors # <<>> => syntaxErrors = validatePayload(dork)

(* C21: in every reachable state in which a result is active, the query is  *)
(* that result's dork field, whatever the interleaving of generation        *)
(* starts and completions, recalls, manual edits, refinement and            *)
(* enhancement.                                                             *)
C21_QueryOfActiveResult ==
  analysis # NULL => dork = analysis[1].dork[1]

\* An entry was recalled while the site field was set: the query is the
\* entry's, not the composition of the manual fields
C21_Witness ==
  /\ lastOp = Op("historyClick", "recalled", 0)
  /\ manualParams.site = <<120>>
  /\ analysis = Some(ObjCyrillic)
  /\ dork = <<1089, 34>>

(* C22: the busy flag is set in every state in which at least one           *)
(* generation call is in flight; the completion of one generation never     *)
(* clears it while another generation is pending.                           *)
C22_BusyWhilePending == GenerateCalls # {} => isLoading

(* C23: if every boundary call eventually returns or throws, every          *)
(* generation cycle that enters Pending is eventually followed by a state   *)
(* in which the busy flag is cleared and no call is in flight.              *)
C23_PendingEnds ==
  (GenerateCalls # {}) ~> (~isLoading /\ pending = {})

\* Each single call that is in flight eventually is no longer in flight
C23_EachCallEnds ==
  \A id \in 1..MaxLiveInFlight :
    (id \notin FreeIds) ~> (id \in FreeIds)

\* The response objects a completion stores
StoredResults == {ObjClean, ObjCyrillic, ObjNoRefined}

\* The completion of `call` with obj records the pair (call.input, obj)
C24_Recorded(call, obj) ==
  /\ Len(history') >= 1
  /\ history'[1].input = call.input
  /\ history'[1].response = obj
  /\ Tail(history') = Prefix(history, 9)

(* C24: each HistoryEntry pairs the objective its cycle was started with    *)
(* and the result the same call returned: the completion of a call records  *)
(* the call's own objective with the returned result whatever the session   *)
(* objective has become, and no other step adds or changes an entry.        *)
C24_PairingStep ==
  /\ \A call \in GenerateCalls : \A obj \in StoredResults :
       GenerateResolve(call, TextJson(obj), now + 1) => C24_Recorded(call, obj)
  /\ history' # history =>
       \E call \in GenerateCalls : \E obj \in StoredResults :
         GenerateResolve(call, TextJson(obj), now + 1)

C24_Pairing == [][C24_PairingStep]_vars

\* Call 1 was started with "a"; an enhancement replaced the objective by
\* "b" while it was pending; the entry of call 1 holds "a"
C24_Witness ==
  /\ lastOp = Op("generateResolve", "success", 1)
  /\ calls = 2
  /\ naturalInput = <<98>>
  /\ Len(history) = 1
  /\ history[1].input = <<97>>
  /\ history[1].response = ObjClean

============================================================================
